---- MODULE Spec2Model ----
(***************************************************************************)
(* BVH builder and per-mesh instance packer of the ray tracer              *)
(* (src/src/core/bvh.rs), the BVH cache of the scene and the buffer upload *)
(* (scene.rs, ray_tracer.rs), and the texture loading of the asset manager *)
(* (asset.rs).                                                             *)
(*                                                                         *)
(* Spec and DeepSpec run build_per_mesh step by step, FairSpec is Spec     *)
(* with the fairness of a running build, SceneSpec is the scene with its   *)
(* UI controls and update_buffers, AssetSpec is load_model with one worker *)
(* per material.                                                           *)
(*                                                                         *)
(* Indices, offsets and counts keep the 0-based values of the source; the  *)
(* operator At reads a 0-based position of a TLA+ sequence.                *)
(*                                                                         *)
(* f32 arithmetic is modelled exactly: vertex coordinates, AABB corners,   *)
(* half areas and costs are integers, a centroid coordinate and a split    *)
(* position are rationals <<num, den>> with den > 0.  The two IEEE values  *)
(* the builder relies on, +infinity and NaN, are kept as distinguished     *)
(* values with their IEEE arithmetic (0 * inf = NaN, NaN < x is false).    *)
(***************************************************************************)
EXTENDS Integers, Sequences, FiniteSets, TLC

VARIABLES meshes, quality, i, mesh_lookup, data, bvh, stack, sub, stats, pc,
          scene, last, gpu,
          materials, texture_refs, loaded_textures, cpu_textures,
          next_texture_index, material_map, worker

\* the state of a call of AssetManager::load_model
assetVars == <<materials, texture_refs, loaded_textures, cpu_textures,
               next_texture_index, material_map, worker>>

vars == <<meshes, quality, i, mesh_lookup, data, bvh, stack, sub, stats, pc,
          scene, last, gpu, assetVars>>

----------------------------------------------------------------------------
(* Bounds of the model *)

\* largest number of mesh instances handed to build_per_mesh
MaxInst == 2
\* largest number of triangles over all instances of one call
MaxTris == 3
\* largest number of materials of the OBJ file handed to load_model
MaxMaterials == 3

----------------------------------------------------------------------------
(* Program constants *)

\* the capacity of the node buffer: 520000 in the source, scaled here to the
\* trees of the model (up to 2 * MaxTris - 1 nodes); the builder never reads
\* it
MAX_NODES == 4
\* the recursion cap of subdivide: 32 in the source, scaled here so that
\* geometries of MaxTris + 1 triangles reach it
MAX_DEPTH == 2
\* the capacity of the texture array (ray_tracer.rs)
MAX_TEXTURES == 32
TEST_SPLITS == 50
\* f32::INFINITY and the NaN produced by 0.0 * INFINITY
F32_INFINITY == -2
F32_NAN == -1
\* f32::MAX / f32::MIN, the start values of fit_bounds folds: beyond every
\* coordinate of the model
F32_MAX == 1000
F32_MIN == -1000
\* u32::MAX, the start value of the minima of BVHStats
U32_MAX == -1

----------------------------------------------------------------------------
(* Helpers: 0-based reads, vectors, rationals, floats *)

At(s, k) == s[k + 1]

Min2(a, b) == IF a < b THEN a ELSE b
Max2(a, b) == IF a > b THEN a ELSE b

VecMin(a, b) == [k \in 1..3 |-> Min2(a[k], b[k])]
VecMax(a, b) == [k \in 1..3 |-> Max2(a[k], b[k])]
VecAdd(a, b) == [k \in 1..3 |-> a[k] + b[k]]
VecSub(a, b) == [k \in 1..3 |-> a[k] - b[k]]

\* a < b on rationals <<num, den>>, den > 0
RLess(a, b) == a[1] * b[2] < b[1] * a[2]

\* a < b on f32 costs
FLess(a, b) ==
    /\ a # F32_NAN
    /\ b # F32_NAN
    /\ a # F32_INFINITY
    /\ (b = F32_INFINITY \/ a < b)

\* a * b for a count a >= 0 and a half area b >= 0 or +inf
FMul(a, b) ==
    IF b = F32_INFINITY
    THEN (IF a = 0 THEN F32_NAN ELSE F32_INFINITY)
    ELSE a * b

\* a + b on f32 costs
FAdd(a, b) ==
    IF a = F32_NAN \/ b = F32_NAN THEN F32_NAN
    ELSE IF a = F32_INFINITY \/ b = F32_INFINITY THEN F32_INFINITY
    ELSE a + b

----------------------------------------------------------------------------
(* Inputs: vertices, geometries, mesh instances *)

VertexWithUv(pos, normal, uv) == [pos |-> pos, normal |-> normal, uv |-> uv]

\* the vertex buffer of the geometries of the model
VertexBuffer ==
    << VertexWithUv(<<0, 0, 0>>, <<0, 0, 1>>, <<0, 0>>),
       VertexWithUv(<<6, 0, 0>>, <<0, 0, 1>>, <<1, 0>>),
       VertexWithUv(<<0, 6, 0>>, <<0, 1, 0>>, <<1, 1>>),
       VertexWithUv(<<6, 6, 3>>, <<1, 0, 0>>, <<0, 1>>) >>

\* index triples a geometry is made of: three points (degenerate triangles),
\* a triangle in the plane z = 0 and a triangle that spans all three axes
TriPool == { <<0, 0, 0>>, <<1, 1, 1>>, <<3, 3, 3>>, <<0, 1, 2>>, <<1, 2, 3>> }

RECURSIVE IndexLists(_)
\* the index buffers of exactly n triangles
IndexLists(n) ==
    IF n = 0 THEN { <<>> }
    ELSE { l \o t : l \in IndexLists(n - 1), t \in TriPool }

\* index buffers that break the precondition of build: a length that is not
\* a multiple of 3 (with no whole triangle, with one), an index beyond the
\* vertex buffer
BrokenIndexLists(n) ==
    IF n = 0 THEN { <<0>> }
    ELSE IF n = 1 THEN { <<0, 1, 2, 0>>, <<0, 1, 4>> }
    ELSE {}

\* the geometries of n triangles (n = indices.len() / 3)
Geometry(n) ==
    { [vertices |-> VertexBuffer, indices |-> ix] :
        ix \in IndexLists(n) \cup BrokenIndexLists(n) }

\* Option<String>: None, or Some(s)
None == [some |-> FALSE, s |-> ""]
Some(s) == [some |-> TRUE, s |-> s]

\* an unlabelled instance, and two labels that are also position strings
Labels == { None, Some("0"), Some("1") }

TransformDefault == [pos |-> <<0, 0, 0>>, scale |-> <<1, 1, 1>>]

\* instance k of a list (0-based) alternates between two placements, so
\* that neighbouring instances differ in transform and material
PlacementOf(k) ==
    IF k % 2 = 0
    THEN [transform |-> TransformDefault, material |-> "red"]
    ELSE [transform |-> [pos |-> <<1, 2, 3>>, scale |-> <<1, -1, 1>>],
          material |-> "blue"]

MeshInstance(label, mesh, placement) ==
    [label |-> label, mesh |-> mesh,
     transform |-> placement.transform, material |-> placement.material]

RECURSIVE InstanceLists(_, _)
\* the lists of exactly n instances with at most t triangles altogether
InstanceLists(n, t) ==
    IF n = 0 THEN { <<>> }
    ELSE UNION { { l \o << MeshInstance(lb, g, PlacementOf(n - 1)) >> :
                     l \in InstanceLists(n - 1, t - k),
                     lb \in Labels, g \in Geometry(k) }
                 : k \in 0..t }

----------------------------------------------------------------------------
(* Transform::to_matrix and Mat4::inverse.  A matrix is its four columns.   *)
(* The transforms of the model have the identity rotation and scales 1 or  *)
(* -1, for which the inverse is again an integer matrix.                   *)

ToMatrix(t) ==
    << <<t.scale[1], 0, 0, 0>>,
       <<0, t.scale[2], 0, 0>>,
       <<0, 0, t.scale[3], 0>>,
       <<t.pos[1], t.pos[2], t.pos[3], 1>> >>

\* inverse of a matrix diag(s) + translation p with s[k] in {1, -1}:
\* 1 / s[k] = s[k], translation -p[k] / s[k] = -p[k] * s[k]
MatInverse(m) ==
    << <<m[1][1], 0, 0, 0>>,
       <<0, m[2][2], 0, 0>>,
       <<0, 0, m[3][3], 0>>,
       <<-(m[4][1] * m[1][1]), -(m[4][2] * m[2][2]), -(m[4][3] * m[3][3]), 1>> >>

----------------------------------------------------------------------------
(* BVHTriangle, PackedTriangle, Node, Aabb *)

PackedTriangleNew(v1, v2, v3) ==
    [v1 |-> v1.pos, v2 |-> v2.pos, v3 |-> v3.pos,
     n1 |-> v1.normal, n2 |-> v2.normal, n3 |-> v3.normal,
     uv10 |-> v1.uv[1], uv11 |-> v1.uv[2],
     uv20 |-> v2.uv[1], uv21 |-> v2.uv[2],
     uv30 |-> v3.uv[1], uv31 |-> v3.uv[2]]

\* the BVHTriangle of the three indices starting at position k of the index
\* buffer; centroid = (v1 + v2 + v3) * (1 / 3)
BVHTriangleOf(vertices, indices, k) ==
    LET v1 == At(vertices, At(indices, k)).pos
        v2 == At(vertices, At(indices, k + 1)).pos
        v3 == At(vertices, At(indices, k + 2)).pos
        sum == VecAdd(VecAdd(v1, v2), v3)
    IN  [centroid |-> [a \in 1..3 |-> <<sum[a], 3>>],
         max |-> VecMax(v1, VecMax(v2, v3)),
         min |-> VecMin(v1, VecMin(v2, v3)),
         i |-> k]

NewNode(aabb_min, aabb_max, first, count) ==
    [left |-> 0, right |-> 0, first |-> first, count |-> count,
     aabb_min |-> aabb_min, aabb_max |-> aabb_max]

HalfAreaOfExtent(e) == e[1] * e[2] + e[2] * e[3] + e[1] * e[3]

\* Node::cost
NodeCost(node) ==
    HalfAreaOfExtent(VecSub(node.aabb_max, node.aabb_min)) * node.count

\* Aabb::default is the empty box (min = +inf, max = -inf)
AabbDefault == [empty |-> TRUE, min |-> <<0, 0, 0>>, max |-> <<0, 0, 0>>]

\* Aabb::grow
AabbGrow(box, tri) ==
    IF box.empty
    THEN [empty |-> FALSE, min |-> tri.min, max |-> tri.max]
    ELSE [empty |-> FALSE, min |-> VecMin(box.min, tri.min),
          max |-> VecMax(box.max, tri.max)]

\* Aabb::half_area; on the empty box e = -inf and every product is +inf
AabbHalfArea(box) ==
    IF box.empty THEN F32_INFINITY
    ELSE HalfAreaOfExtent(VecSub(box.max, box.min))

\* fit_bounds with min() written for max(): the upper corner never grows
FitBoundsMinForMax(b, tri) ==
    [min |-> VecMin(b.min, tri.min), max |-> VecMin(b.max, tri.max)]

\* BVH::fit_bounds on the pair (min, max)
FitBounds(b, tri) ==
    [min |-> VecMin(b.min, tri.min), max |-> VecMax(b.max, tri.max)]

FitStart ==
    [min |-> <<F32_MAX, F32_MAX, F32_MAX>>, max |-> <<F32_MIN, F32_MIN, F32_MIN>>]

\* empty() that pushes a root node for no triangles
BVHEmptyWithRoot ==
    [build_triangles |-> <<>>, packed_triangles |-> <<>>,
     nodes |-> << NewNode(FitStart.min, FitStart.max, 0, 0) >>,
     n_nodes |-> 1, quality |-> "Disabled"]

\* BVH::empty
BVHEmpty ==
    [build_triangles |-> <<>>, packed_triangles |-> <<>>, nodes |-> <<>>,
     n_nodes |-> 0, quality |-> "Disabled"]

----------------------------------------------------------------------------
(* BVH::evaluate_sah *)

\* the test of evaluate_sah and of the partition loop of subdivide:
\* tri.centroid[axis] < pos
GoesLeft(tri, axis, pos) == RLess(tri.centroid[axis + 1], pos)

RECURSIVE SahLoop(_, _, _, _, _, _)
\* the loop of evaluate_sah from position k to end
SahLoop(tris, axis, pos, k, end, acc) ==
    IF k >= end THEN acc
    ELSE LET tri == At(tris, k)
         IN  IF GoesLeft(tri, axis, pos)
             THEN SahLoop(tris, axis, pos, k + 1, end,
                          [acc EXCEPT !.left_count = @ + 1,
                                      !.left_bounds = AabbGrow(@, tri)])
             ELSE SahLoop(tris, axis, pos, k + 1, end,
                          [acc EXCEPT !.right_count = @ + 1,
                                      !.right_bounds = AabbGrow(@, tri)])

EvaluateSah(tris, axis, pos, start, count) ==
    LET r == SahLoop(tris, axis, pos, start, start + count,
                     [left_count |-> 0, right_count |-> 0,
                      left_bounds |-> AabbDefault, right_bounds |-> AabbDefault])
    IN  FAdd(FMul(r.left_count, AabbHalfArea(r.left_bounds)),
             FMul(r.right_count, AabbHalfArea(r.right_bounds)))

----------------------------------------------------------------------------
(* BVH::find_best_split: the result is [axis, split_pos, cost] *)

\* Quality::Low with the comparisons turned round
LowAxisShortest(bounds) ==
    IF bounds[1] < bounds[2] /\ bounds[1] < bounds[3] THEN 0
    ELSE IF bounds[2] < bounds[3] THEN 1 ELSE 2

\* Quality::Low: the axis of the longest extent
LowAxis(bounds) ==
    IF bounds[1] > bounds[2] /\ bounds[1] > bounds[3] THEN 0
    ELSE IF bounds[2] > bounds[3] THEN 1 ELSE 2

\* Quality::Low: aabb_min[axis] + bounds[axis] * 0.5
LowSplitPos(node, bounds, axis) ==
    << 2 * node.aabb_min[axis + 1] + bounds[axis + 1], 2 >>

\* Quality::High: ceil(axis_size / max_axis * TEST_SPLITS) clamped to
\* 1..TEST_SPLITS
NSplitTests(axis_size, max_axis) ==
    LET c == (axis_size * TEST_SPLITS + max_axis - 1) \div max_axis
    IN  Max2(1, Min2(c, TEST_SPLITS))

\* Quality::High with split_t = k / n_split_tests: the first test is at
\* axis_min
TestSplitPosFromMin(axis_min, axis_size, k, n_split_tests) ==
    << axis_min * n_split_tests + axis_size * k, n_split_tests >>

\* Quality::High: axis_min + axis_size * ((k + 1) / (n_split_tests + 1))
TestSplitPos(axis_min, axis_size, k, n_split_tests) ==
    << axis_min * (n_split_tests + 1) + axis_size * (k + 1), n_split_tests + 1 >>

\* Quality::High: the tests of axis a, none on an axis of extent 0; rank is
\* the place of a test in the order of the two nested loops
AxisTests(node, bounds, a) ==
    IF bounds[a + 1] = 0 THEN {}
    ELSE LET max_axis == Max2(bounds[1], Max2(bounds[2], bounds[3]))
             n_split_tests == NSplitTests(bounds[a + 1], max_axis)
         IN  { [rank |-> a * TEST_SPLITS + k, axis |-> a,
                split_pos |-> TestSplitPos(node.aabb_min[a + 1], bounds[a + 1],
                                           k, n_split_tests)]
               : k \in 0..(n_split_tests - 1) }

\* Quality::High: every test with the cost evaluate_sah returns for it
ScoredTests(tris, node, bounds, start, count) ==
    { [rank |-> t.rank, axis |-> t.axis, split_pos |-> t.split_pos,
       cost |-> EvaluateSah(tris, t.axis, t.split_pos, start, count)]
      : t \in AxisTests(node, bounds, 0) \cup AxisTests(node, bounds, 1)
                \cup AxisTests(node, bounds, 2) }

\* Quality::High: "if cost < best_cost { ... best_cost = cost }" run over the
\* tests in rank order from best_cost = INFINITY ends with the first test of
\* least cost among the tests whose cost is less than INFINITY (a NaN cost
\* is never less), and leaves the start values when there is none
KeepBest(scored, untouched) ==
    LET better == { t \in scored : FLess(t.cost, F32_INFINITY) }
        costs == { t.cost : t \in better }
        least == CHOOSE c \in costs : \A d \in costs : c <= d
        ranks == { t.rank : t \in { u \in better : u.cost = least } }
        first == CHOOSE r \in ranks : \A q \in ranks : r <= q
        best == CHOOSE t \in better : t.rank = first
    IN  IF better = {} THEN untouched
        ELSE [axis |-> best.axis, split_pos |-> best.split_pos, cost |-> best.cost]

\* axis and split_pos are the caller's locals (0 and 0.0 before the call),
\* written only where find_best_split assigns them
FindBestSplit(tris, q, node, start, count) ==
    LET untouched == [axis |-> 0, split_pos |-> <<0, 1>>, cost |-> F32_INFINITY]
        bounds == VecSub(node.aabb_max, node.aabb_min)
    IN  IF node.count <= 1 THEN untouched
        ELSE CASE q = "Low" ->
                    LET axis == LowAxis(bounds)
                        pos == LowSplitPos(node, bounds, axis)
                    IN  [axis |-> axis, split_pos |-> pos,
                         cost |-> EvaluateSah(tris, axis, pos, start, count)]
               [] q = "High" ->
                    KeepBest(ScoredTests(tris, node, bounds, start, count), untouched)
               [] OTHER -> untouched

----------------------------------------------------------------------------
(* BVH::subdivide *)

\* the accept condition with <= for <
AcceptNotWorse(cost, parent_cost, depth) ==
    /\ FLess(cost, parent_cost) \/ (cost >= 0 /\ cost = parent_cost)
    /\ depth < MAX_DEPTH

\* the accept condition turned round, "leaf if cost >= parent_cost": a NaN
\* cost is not >= anything
AcceptUnlessNotLess(cost, parent_cost, depth) ==
    /\ ~(FLess(parent_cost, cost) \/ (cost # F32_NAN /\ cost = parent_cost))
    /\ depth < MAX_DEPTH

\* the accept condition without the depth cap
AcceptAnyDepth(cost, parent_cost, depth) == FLess(cost, parent_cost)

\* every split is accepted
AcceptAlways(cost, parent_cost, depth) == TRUE

\* the accept condition of a split
Accept(cost, parent_cost, depth) == FLess(cost, parent_cost) /\ depth < MAX_DEPTH

Swap(s, a, b) == [s EXCEPT ![a + 1] = s[b + 1], ![b + 1] = s[a + 1]]

RECURSIVE PartitionLoop(_, _, _, _, _, _)
\* the partition loop of subdivide from position k to end; st holds
\* build_triangles, left_count and the bounds of both sides
PartitionLoop(st, axis, split_pos, start, k, end) ==
    IF k >= end THEN st
    ELSE LET tri == At(st.tris, k)
         IN  IF GoesLeft(tri, axis, split_pos)
             THEN PartitionLoop([st EXCEPT !.left = FitBounds(@, tri),
                                           !.tris = Swap(@, start + st.left_count, k),
                                           !.left_count = @ + 1],
                                axis, split_pos, start, k + 1, end)
             ELSE PartitionLoop([st EXCEPT !.right = FitBounds(@, tri)],
                                axis, split_pos, start, k + 1, end)

\* the partition loop without its swap: the sides are counted and bounded
\* but the triangles stay where they are
PartitionNoSwap(tris, axis, split_pos, start, n_tris) ==
    [PartitionLoop([tris |-> tris, left_count |-> 0,
                    left |-> FitStart, right |-> FitStart],
                   axis, split_pos, start, start, start + n_tris)
       EXCEPT !.tris = tris]

Partition(tris, axis, split_pos, start, n_tris) ==
    PartitionLoop([tris |-> tris, left_count |-> 0,
                   left |-> FitStart, right |-> FitStart],
                  axis, split_pos, start, start, start + n_tris)

\* the accepted branch with right_first = left_first: "+ left_count" is
\* missing
SplitNodeSameFirst(b, node_idx, p, start, n_tris) ==
    LET pushed == b.nodes
                    \o << NewNode(p.left.min, p.left.max, start, p.left_count) >>
                    \o << NewNode(p.right.min, p.right.max, start,
                                  n_tris - p.left_count) >>
    IN  [b EXCEPT !.build_triangles = p.tris,
                  !.n_nodes = @ + 2,
                  !.nodes = [pushed EXCEPT ![node_idx + 1].left = b.n_nodes,
                                           ![node_idx + 1].right = b.n_nodes + 1,
                                           ![node_idx + 1].count = 0]]

\* the accepted branch without "parent.count = 0": the parent keeps its
\* triangle count
SplitNodeKeepCount(b, node_idx, p, start, n_tris) ==
    LET pushed == b.nodes
                    \o << NewNode(p.left.min, p.left.max, start, p.left_count) >>
                    \o << NewNode(p.right.min, p.right.max, start + p.left_count,
                                  n_tris - p.left_count) >>
    IN  [b EXCEPT !.build_triangles = p.tris,
                  !.n_nodes = @ + 2,
                  !.nodes = [pushed EXCEPT ![node_idx + 1].left = b.n_nodes,
                                           ![node_idx + 1].right = b.n_nodes + 1]]

\* the accepted branch with the right child pushed before the left one
SplitNodeRightFirst(b, node_idx, p, start, n_tris) ==
    LET pushed == b.nodes
                    \o << NewNode(p.right.min, p.right.max, start + p.left_count,
                                  n_tris - p.left_count) >>
                    \o << NewNode(p.left.min, p.left.max, start, p.left_count) >>
    IN  [b EXCEPT !.build_triangles = p.tris,
                  !.n_nodes = @ + 2,
                  !.nodes = [pushed EXCEPT ![node_idx + 1].left = b.n_nodes + 1,
                                           ![node_idx + 1].right = b.n_nodes,
                                           ![node_idx + 1].count = 0]]

\* the accepted branch of subdivide on the BVH b: two nodes are pushed and
\* the parent becomes interior
SplitNode(b, node_idx, p, start, n_tris) ==
    LET left_count == p.left_count
        right_count == n_tris - left_count
        left_index == b.n_nodes
        right_index == b.n_nodes + 1
        pushed == b.nodes
                    \o << NewNode(p.left.min, p.left.max, start, left_count) >>
                    \o << NewNode(p.right.min, p.right.max, start + left_count,
                                  right_count) >>
    IN  [b EXCEPT !.build_triangles = p.tris,
                  !.n_nodes = @ + 2,
                  !.nodes = [pushed EXCEPT ![node_idx + 1].left = left_index,
                                           ![node_idx + 1].right = right_index,
                                           ![node_idx + 1].count = 0]]

\* a pending call subdivide(node_idx, tri_global_start, n_tris, depth)
Frame(node_idx, tri_global_start, n_tris, depth) ==
    [node_idx |-> node_idx, tri_global_start |-> tri_global_start,
     n_tris |-> n_tris, depth |-> depth]

\* the locals of a call of subdivide when it is about to recurse or return
Locals(f, best, parent_cost, accepted) ==
    [node_idx |-> f.node_idx, tri_global_start |-> f.tri_global_start,
     n_tris |-> f.n_tris, depth |-> f.depth,
     axis |-> best.axis, split_pos |-> best.split_pos,
     cost |-> best.cost, parent_cost |-> parent_cost, accepted |-> accepted]

\* the accepted branch of the call f: the BVH after the split, the two
\* recursive calls in call order, the locals
Accepted(b, f, best, parent_cost, p) ==
    [bvh |-> SplitNode(b, f.node_idx, p, f.tri_global_start, f.n_tris),
     calls |-> << Frame(b.n_nodes, f.tri_global_start, p.left_count, f.depth + 1),
                  Frame(b.n_nodes + 1, f.tri_global_start + p.left_count,
                        f.n_tris - p.left_count, f.depth + 1) >>,
     sub |-> Locals(f, best, parent_cost, TRUE)]

\* the call f of subdivide on the BVH b up to its first recursive call
Decide(b, f, best, parent_cost) ==
    IF Accept(best.cost, parent_cost, f.depth)
    THEN Accepted(b, f, best, parent_cost,
                  Partition(b.build_triangles, best.axis, best.split_pos,
                            f.tri_global_start, f.n_tris))
    ELSE [bvh |-> b, calls |-> <<>>, sub |-> Locals(f, best, parent_cost, FALSE)]

SubdivideCall(b, f) ==
    Decide(b, f,
           FindBestSplit(b.build_triangles, b.quality, At(b.nodes, f.node_idx),
                         f.tri_global_start, f.n_tris),
           NodeCost(At(b.nodes, f.node_idx)))

RECURSIVE SubdivideAll(_, _)
\* subdivide run to completion: pending holds the calls still to run, the
\* innermost first
SubdivideAll(b, pending) ==
    IF pending = <<>> THEN b
    ELSE LET r == SubdivideCall(b, Head(pending))
         IN  SubdivideAll(r.bvh, r.calls \o Tail(pending))

----------------------------------------------------------------------------
(* BVHStats *)

StatsStart ==
    [leaf_count |-> 0, leaf_min_depth |-> U32_MAX, leaf_max_depth |-> 0,
     sum_depth |-> 0, min_tris |-> U32_MAX, max_tris |-> 0, sum_tris |-> 0,
     node_count |-> 0]

\* u32 min against a value that may still be u32::MAX
U32Min(cur, v) == IF cur = U32_MAX THEN v ELSE Min2(cur, v)

RecordNode(st) == [st EXCEPT !.node_count = @ + 1]

RecordLeafNode(st, triangle_count, depth) ==
    [RecordNode(st) EXCEPT !.leaf_count = @ + 1,
                           !.sum_depth = @ + depth,
                           !.leaf_min_depth = U32Min(@, depth),
                           !.leaf_max_depth = Max2(@, depth),
                           !.sum_tris = @ + triangle_count,
                           !.max_tris = Max2(@, triangle_count),
                           !.min_tris = U32Min(@, triangle_count)]

----------------------------------------------------------------------------
(* BVH::build *)

NTris(mesh) == Len(mesh.indices) \div 3

\* the loop over the index buffer in steps of 3 reads indices[i + 1] or
\* indices[i + 2] past the end when the length is not a multiple of 3, and
\* vertices[index] past the end for an index beyond the vertex buffer; it
\* is not entered when n_tris = 0
BuildPanics(mesh) ==
    /\ NTris(mesh) > 0
    /\ \/ Len(mesh.indices) % 3 # 0
       \/ \E k \in 1..Len(mesh.indices) : mesh.indices[k] >= Len(mesh.vertices)

\* the loop over the index buffer in steps of 3: the build triangles in
\* source order
BuildTriangles(mesh) ==
    [k \in 1..NTris(mesh) |-> BVHTriangleOf(mesh.vertices, mesh.indices, 3 * (k - 1))]

RECURSIVE FitAll(_, _, _, _)
\* fit_bounds folded over the positions k..end-1 of tris
FitAll(tris, k, end, b) ==
    IF k >= end THEN b
    ELSE FitAll(tris, k + 1, end, FitBounds(b, At(tris, k)))

\* the root node with count = indices.len() for n_tris
RootNodeIndexCount(tris) ==
    LET b == FitAll(tris, 0, Len(tris), FitStart)
    IN  NewNode(b.min, b.max, 0, 3 * Len(tris))

\* the root node: first 0, count n_tris, bounds of all triangles
RootNode(tris) ==
    LET b == FitAll(tris, 0, Len(tris), FitStart)
    IN  NewNode(b.min, b.max, 0, Len(tris))

\* the BVH before subdivision
BuildRoot(mesh, q) ==
    LET tris == BuildTriangles(mesh)
    IN  [build_triangles |-> tris, packed_triangles |-> <<>>,
         nodes |-> << RootNode(tris) >>, n_nodes |-> 1, quality |-> q]

\* Quality::Disabled returns the BVH right after the root was pushed
ReturnsEarly(q) == q = "Disabled"

\* the PackedTriangle of the build triangle at position k
PackedAt(mesh, tris, k) ==
    LET t == At(tris, k)
    IN  PackedTriangleNew(At(mesh.vertices, At(mesh.indices, t.i)),
                          At(mesh.vertices, At(mesh.indices, t.i + 1)),
                          At(mesh.vertices, At(mesh.indices, t.i + 2)))

\* the packing loop at the end of build
PackTriangles(mesh, tris) ==
    [k \in 1..Len(tris) |-> PackedAt(mesh, tris, k - 1)]

\* build as a function of its arguments, where it returns (and the empty
\* BVH where it panics)
Build(mesh, q) ==
    IF NTris(mesh) = 0 \/ BuildPanics(mesh) THEN BVHEmpty
    ELSE IF ReturnsEarly(q) THEN BuildRoot(mesh, q)
    ELSE LET b == SubdivideAll(BuildRoot(mesh, q), << Frame(0, 0, NTris(mesh), 0) >>)
         IN  [b EXCEPT !.packed_triangles = PackTriangles(mesh, b.build_triangles)]

----------------------------------------------------------------------------
(* BVH::build_per_mesh *)

Digits == << "0", "1", "2", "3", "4", "5", "6", "7", "8", "9" >>

RECURSIVE UsizeToString(_)
\* usize::to_string
UsizeToString(n) ==
    IF n < 10 THEN Digits[n + 1]
    ELSE UsizeToString(n \div 10) \o Digits[(n % 10) + 1]

\* the cache key of the instance at position k: its label, else its position
KeyOf(ms, k) ==
    IF At(ms, k).label.some THEN At(ms, k).label.s ELSE UsizeToString(k)

NewMeshUniform(inst, node_offset, triangle_offset) ==
    LET model_to_world == ToMatrix(inst.transform)
    IN  [world_to_model |-> MatInverse(model_to_world),
         model_to_world |-> model_to_world,
         node_offset |-> node_offset,
         triangles |-> Len(inst.mesh.indices) \div 3,
         triangle_offset |-> triangle_offset,
         material |-> inst.material]

\* the push with the instance the key was first seen on in place of the
\* instance of the iteration
EmitUniformOfFirst(d, lookup, ms, k) ==
    LET off == lookup[KeyOf(ms, k)]
        first == CHOOSE j \in 0..k : /\ KeyOf(ms, j) = KeyOf(ms, k)
                                      /\ \A m \in 0..(j - 1) : KeyOf(ms, m) # KeyOf(ms, k)
    IN  [d EXCEPT !.mesh_uniforms =
                      Append(@, NewMeshUniform(At(ms, first), off[1], off[2]))]

\* the lookup and the push of the MeshUniform that end every iteration
EmitUniform(d, lookup, ms, k) ==
    LET off == lookup[KeyOf(ms, k)]
    IN  [d EXCEPT !.mesh_uniforms = Append(@, NewMeshUniform(At(ms, k), off[1], off[2]))]

MeshDataListDefault == [triangles |-> <<>>, nodes |-> <<>>, mesh_uniforms |-> <<>>]

\* no call of subdivide of the running build has got to its decision yet
SubDefault ==
    [node_idx |-> 0, tri_global_start |-> 0, n_tris |-> 0, depth |-> 0,
     axis |-> 0, split_pos |-> <<0, 1>>, cost |-> F32_INFINITY,
     parent_cost |-> 0, accepted |-> FALSE]

Qualities == { "Low", "High", "Disabled" }

\* the triangles a list of n instances has altogether: MaxTris for a single
\* instance, one less for every further instance
TriBudget(n) == Max2(0, MaxTris + 1 - n)

RECURSIVE BuildPerMeshFrom(_, _, _, _, _)
\* the loop of build_per_mesh from the instance at position k, with the data
\* d and the lookup table of the iterations before it
BuildPerMeshFrom(ms, q, k, d, lookup) ==
    IF k >= Len(ms) THEN d
    ELSE IF KeyOf(ms, k) \in DOMAIN lookup
    THEN BuildPerMeshFrom(ms, q, k + 1, EmitUniform(d, lookup, ms, k), lookup)
    ELSE LET inserted == lookup @@
                    (KeyOf(ms, k) :> <<Len(d.nodes), Len(d.triangles)>>)
             b == Build(At(ms, k).mesh, q)
         IN  BuildPerMeshFrom(ms, q, k + 1,
                 EmitUniform([d EXCEPT !.triangles = @ \o b.packed_triangles,
                                       !.nodes = @ \o b.nodes],
                             inserted, ms, k),
                 inserted)

\* build_per_mesh as a function of its arguments
BuildPerMesh(ms, q) ==
    BuildPerMeshFrom(ms, q, 0, MeshDataListDefault, [k \in {} |-> <<0, 0>>])

----------------------------------------------------------------------------
(* Scene: the cached BVH data and the operations of the UI on it *)

\* Scene::new
SceneNew ==
    [meshes |-> <<>>, bvh_data |-> MeshDataListDefault,
     bvh_quality |-> "High", built_bvh |-> FALSE]

\* the test of Scene::bvh with the cache left out of it
NeedsBuildAlways(s) == Len(s.meshes) > 0

\* the test of Scene::bvh
NeedsBuild(s) == ~s.built_bvh /\ Len(s.meshes) > 0

\* Scene::bvh: the scene after the call
SceneBvh(s) ==
    IF NeedsBuild(s)
    THEN [s EXCEPT !.bvh_data = BuildPerMesh(s.meshes, "High"),
                   !.built_bvh = TRUE]
    ELSE s

\* Scene::to_uniform: the counts the shader reads
ToUniform(s) == [meshes |-> Len(s.meshes), nodes |-> Len(s.bvh_data.nodes)]

\* the slices the last call of update_buffers wrote to the triangle, mesh,
\* node and scene buffers; nothing is written by RayTracer::new
GpuNew ==
    [triangle_buffer |-> <<>>, mesh_buffer |-> <<>>, bvh_nodes_buffer |-> <<>>,
     scene_buffer |-> ToUniform(SceneNew)]

\* update_buffers when Scene::bvh leaves the scene built: the triangles and
\* the mesh uniforms are read before Scene::bvh is called, the nodes are
\* what it returns, the scene uniform is taken after it
UpdateBuffersTo(s, built) ==
    [scene |-> built,
     gpu |-> [triangle_buffer |-> s.bvh_data.triangles,
              mesh_buffer |-> s.bvh_data.mesh_uniforms,
              bvh_nodes_buffer |-> built.bvh_data.nodes,
              scene_buffer |-> ToUniform(built)]]

\* RayTracer::update_buffers: the scene and the buffers after the call
UpdateBuffers(s) == UpdateBuffersTo(s, SceneBvh(s))

\* Scene::add_mesh
AddMesh(s, mesh) == [s EXCEPT !.meshes = Append(@, mesh)]

\* the Quality combo box: selectable_value writes the chosen value
SelectQuality(s, q) == [s EXCEPT !.bvh_quality = q]

\* a "Rebuild BVH" button without effect
RebuildBvhKeeps(s) == s

\* the "Rebuild BVH" button
RebuildBvh(s) == [s EXCEPT !.built_bvh = FALSE]

\* the triangles the scenes of the model are made of: a triangle in the
\* plane z = 0, a triangle that spans all three axes
SceneTriPool == { <<0, 1, 2>>, <<1, 2, 3>> }

\* scene meshes are unlabelled
SceneLabels == { None }

\* scene meshes come from the scene constructors and the OBJ loader: whole
\* triangles over the vertex buffer
SceneGeometry(n) ==
    { [vertices |-> VertexBuffer, indices |-> ix] :
        ix \in { l \in IndexLists(n) :
                   \A k \in 0..(n - 1) :
                       SubSeq(l, 3 * k + 1, 3 * k + 3) \in SceneTriPool } }

\* the scene geometries by their number of triangles
SceneGeometries == [n \in 0..MaxTris |-> SceneGeometry(n)]

RECURSIVE TrianglesOf(_)
\* the triangles of a list of instances altogether
TrianglesOf(ms) ==
    IF ms = <<>> THEN 0 ELSE NTris(Head(ms).mesh) + TrianglesOf(Tail(ms))

\* the triangles a scene of n meshes has altogether: one less than a list
\* handed to build_per_mesh directly
SceneTriBudget(n) == Max2(0, TriBudget(n) - 1)

\* the instances add_mesh may push onto the meshes ms within the bounds
Addable(ms) ==
    IF Len(ms) >= MaxInst THEN {}
    ELSE { MeshInstance(lb, g, PlacementOf(Len(ms))) :
             lb \in SceneLabels,
             g \in UNION { SceneGeometries[n] :
                             n \in 0..(SceneTriBudget(Len(ms) + 1) - TrianglesOf(ms)) } }

\* what the last operation on the scene was and, for a call of Scene::bvh,
\* whether it ran build_per_mesh and which operation came before it
Last(op, built, after) == [op |-> op, built |-> built, after |-> after]

----------------------------------------------------------------------------
(* AssetManager: the textures of the materials of a model *)

\* the texture files of the model
TexturePaths == { "a.png", "b.png" }

\* m.diffuse_texture of a material: no texture or a path
DiffuseTextures == { None } \cup { Some(path) : path \in TexturePaths }

\* the material lists tobj::load_obj may return
MaterialLists ==
    UNION { [1..n -> DiffuseTextures] : n \in 1..MaxMaterials }

\* the TextureRef of the texture stored at index; width and height are
\* those of the image file, the same for every load of a path
TextureRef(index) == [index |-> index]

TextureRefDefault == TextureRef(0)

\* the image decoded from the file at path
ImageOf(path) == [file |-> path]

\* ImageBuffer::new(1, 1), the filler of create_texture_array
BlankImage == [file |-> ""]

\* a worker of the first par_iter before it has run
WorkerStart == [pc |-> "start", texture_ref |-> TextureRefDefault]

\* AssetManager::create_texture_array
CreateTextureArray(loaded, cpu) ==
    [k \in 0..(MAX_TEXTURES - 1) |->
        LET keys == { key \in DOMAIN cpu :
                        key \in DOMAIN loaded /\ loaded[key].index = k }
        IN  IF keys = {} THEN BlankImage ELSE cpu[CHOOSE key \in keys : TRUE]]

\* the Material built for a material of the OBJ file
NewMaterial(diffuse_texture, refs) ==
    LET texture_ref == IF diffuse_texture.some THEN refs[diffuse_texture.s]
                       ELSE TextureRefDefault
    IN  [textured |-> diffuse_texture.some, texture_index |-> texture_ref.index]

\* AssetManager::new, and no call of load_model
AssetManagerNew ==
    /\ materials = <<>>
    /\ texture_refs = [k \in {} |-> TextureRefDefault]
    /\ loaded_textures = [k \in {} |-> TextureRefDefault]
    /\ cpu_textures = [k \in {} |-> BlankImage]
    /\ next_texture_index = 0
    /\ material_map = [k \in {} |-> NewMaterial(None, <<>>)]
    /\ worker = <<>>

----------------------------------------------------------------------------
(* The state machine *)

Init ==
    /\ meshes \in UNION { InstanceLists(n, TriBudget(n)) : n \in 1..MaxInst }
    /\ quality \in Qualities
    /\ i = 0
    /\ mesh_lookup = [k \in {} |-> <<0, 0>>]
    /\ data = MeshDataListDefault
    /\ bvh = BVHEmpty
    /\ stack = <<>>
    /\ sub = SubDefault
    /\ stats = StatsStart
    /\ pc = "loop"
    /\ scene = SceneNew
    /\ last = Last("new", FALSE, "")
    /\ gpu = GpuNew
    /\ AssetManagerNew

\* an iteration whose key is not in mesh_lookup: the key is inserted with the
\* current lengths of the global arrays and build starts; it returns at once
\* for an empty geometry and for Quality::Disabled
BuildEnter ==
    /\ pc = "loop"
    /\ i < Len(meshes)
    /\ KeyOf(meshes, i) \notin DOMAIN mesh_lookup
    /\ mesh_lookup' = mesh_lookup @@
            (KeyOf(meshes, i) :> <<Len(data.nodes), Len(data.triangles)>>)
    /\ ~BuildPanics(At(meshes, i).mesh)
    /\ LET mesh == At(meshes, i).mesh
       IN  IF NTris(mesh) = 0
           THEN /\ bvh' = BVHEmpty
                /\ stack' = <<>>
                /\ pc' = "append"
           ELSE /\ bvh' = BuildRoot(mesh, quality)
                /\ IF ReturnsEarly(quality)
                   THEN /\ stack' = <<>>
                        /\ pc' = "append"
                   ELSE /\ stack' = << Frame(0, 0, NTris(mesh), 0) >>
                        /\ pc' = "subdivide"
    /\ sub' = SubDefault
    /\ UNCHANGED <<meshes, quality, i, data, stats, scene, last, gpu, assetVars>>

\* an iteration whose key is not in mesh_lookup and whose geometry makes the
\* triangle loop of build index out of bounds: the thread panics
BuildPanic ==
    /\ pc = "loop"
    /\ i < Len(meshes)
    /\ KeyOf(meshes, i) \notin DOMAIN mesh_lookup
    /\ BuildPanics(At(meshes, i).mesh)
    /\ mesh_lookup' = mesh_lookup @@
            (KeyOf(meshes, i) :> <<Len(data.nodes), Len(data.triangles)>>)
    /\ pc' = "panic"
    /\ UNCHANGED <<meshes, quality, i, data, bvh, stack, sub, stats, scene, last, gpu, assetVars>>

\* a call of subdivide is pending.  A call is made at depth 0 or from a
\* call at a depth < MAX_DEPTH: the condition on the depth caps the
\* recursion of the model
SubdivideEnabled ==
    /\ pc = "subdivide"
    /\ stack # <<>>
    /\ Head(stack).depth <= MAX_DEPTH

\* one call of subdivide: the innermost pending call runs up to its first
\* recursive call, which becomes pending together with the second one
Subdivide ==
    /\ SubdivideEnabled
    /\ \E r \in { SubdivideCall(bvh, Head(stack)) } :
           /\ bvh' = r.bvh
           /\ stack' = r.calls \o Tail(stack)
           /\ sub' = r.sub
           /\ stats' = IF r.sub.accepted
                       THEN RecordNode(stats)
                       ELSE RecordLeafNode(stats, Head(stack).n_tris, Head(stack).depth)
           /\ pc' = IF r.calls \o Tail(stack) = <<>> THEN "pack" ELSE "subdivide"
    /\ UNCHANGED <<meshes, quality, i, mesh_lookup, data, scene, last, gpu, assetVars>>

\* the packing loop of build, after the outermost subdivide returned
Pack ==
    /\ pc = "pack"
    /\ bvh' = [bvh EXCEPT !.packed_triangles =
                   PackTriangles(At(meshes, i).mesh, bvh.build_triangles)]
    /\ pc' = "append"
    /\ UNCHANGED <<meshes, quality, i, mesh_lookup, data, stack, sub, stats, scene, last, gpu, assetVars>>

\* build returned: its arrays are moved to the end of the global arrays, the
\* MeshUniform of the instance is pushed and the BVH is dropped
AppendBuilt ==
    /\ pc = "append"
    /\ data' = EmitUniform([data EXCEPT !.triangles = @ \o bvh.packed_triangles,
                                        !.nodes = @ \o bvh.nodes],
                           mesh_lookup, meshes, i)
    /\ bvh' = BVHEmpty
    /\ i' = i + 1
    /\ pc' = "loop"
    /\ UNCHANGED <<meshes, quality, mesh_lookup, stack, sub, stats, scene, last, gpu, assetVars>>

\* an iteration whose key is already in mesh_lookup: only the MeshUniform
Reuse ==
    /\ pc = "loop"
    /\ i < Len(meshes)
    /\ KeyOf(meshes, i) \in DOMAIN mesh_lookup
    /\ data' = EmitUniform(data, mesh_lookup, meshes, i)
    /\ i' = i + 1
    /\ UNCHANGED <<meshes, quality, mesh_lookup, bvh, stack, sub, stats, pc, scene, last, gpu, assetVars>>

\* the loop is over: build_per_mesh returns data
Return ==
    /\ pc = "loop"
    /\ i = Len(meshes)
    /\ pc' = "done"
    /\ UNCHANGED <<meshes, quality, i, mesh_lookup, data, bvh, stack, sub, stats, scene, last, gpu, assetVars>>

Next == BuildEnter \/ BuildPanic \/ Subdivide \/ Pack \/ AppendBuilt \/ Reuse \/ Return

Spec == Init /\ [][Next]_vars

\* a step of Subdivide by its guard and its record in the statistics, the
\* step of Pack by its guard and its change of position: the steps of Next
\* that satisfy them are the steps of Subdivide and of Pack, and they are
\* enabled when Subdivide and Pack are
SubdivideStep ==
    /\ SubdivideEnabled
    /\ stats' \in { RecordNode(stats),
                    RecordLeafNode(stats, Head(stack).n_tris, Head(stack).depth) }

PackStep == pc = "pack" /\ pc' = "append"

\* build runs on one thread from call to return: a pending call of
\* subdivide and the packing loop are not put off for ever
FairSpec == Spec /\ WF_stats(SubdivideStep) /\ WF_pc(PackStep)

\* the number of triangles of the deep geometries
DeepTris == 4

\* instance lists whose first geometry has DeepTris triangles, alone or
\* followed by an instance without a whole triangle or with a broken index
\* buffer
DeepInstanceLists ==
    { << MeshInstance(None, [vertices |-> VertexBuffer, indices |-> ix],
                      PlacementOf(0)) >> \o rest :
        ix \in IndexLists(DeepTris),
        rest \in { <<>> } \cup
                 { << MeshInstance(lb, g, PlacementOf(1)) >> :
                     lb \in { None, Some("0") },
                     g \in Geometry(0) \cup
                           { [vertices |-> VertexBuffer, indices |-> bx] :
                               bx \in BrokenIndexLists(1) } } }

\* build_per_mesh is called on a deep geometry
DeepInit ==
    /\ meshes \in DeepInstanceLists
    /\ quality \in Qualities
    /\ i = 0
    /\ mesh_lookup = [k \in {} |-> <<0, 0>>]
    /\ data = MeshDataListDefault
    /\ bvh = BVHEmpty
    /\ stack = <<>>
    /\ sub = SubDefault
    /\ stats = StatsStart
    /\ pc = "loop"
    /\ scene = SceneNew
    /\ last = Last("new", FALSE, "")
    /\ gpu = GpuNew
    /\ AssetManagerNew

DeepSpec == DeepInit /\ [][Next]_vars

----------------------------------------------------------------------------
(* The state machine of a scene: accesses of the BVH, scene changes and the *)
(* BVH controls of the debug panel                                         *)

\* the variables of a running build_per_mesh
buildVars == <<meshes, quality, i, mesh_lookup, data, bvh, stack, sub, stats, pc>>

SceneInit ==
    /\ meshes = <<>>
    /\ quality = "High"
    /\ i = 0
    /\ mesh_lookup = [k \in {} |-> <<0, 0>>]
    /\ data = MeshDataListDefault
    /\ bvh = BVHEmpty
    /\ stack = <<>>
    /\ sub = SubDefault
    /\ stats = StatsStart
    /\ pc = "idle"
    /\ scene = SceneNew
    /\ last = Last("new", FALSE, "")
    /\ gpu = GpuNew
    /\ AssetManagerNew

\* a scene is selected: state.scene is replaced by a new Scene
SceneChanged ==
    /\ scene' = SceneNew
    /\ last' = Last("scene", FALSE, "")
    /\ UNCHANGED <<buildVars, gpu, assetVars>>

\* Scene::add_mesh
MeshAdded ==
    /\ \E mesh \in Addable(scene.meshes) : scene' = AddMesh(scene, mesh)
    /\ last' = Last("add_mesh", FALSE, "")
    /\ UNCHANGED <<buildVars, gpu, assetVars>>

\* another quality is chosen in the combo box
QualitySelected ==
    /\ \E q \in Qualities \ {scene.bvh_quality} : scene' = SelectQuality(scene, q)
    /\ last' = Last("quality", FALSE, "")
    /\ UNCHANGED <<buildVars, gpu, assetVars>>

\* "Rebuild BVH" is clicked
RebuildClicked ==
    /\ scene' = RebuildBvh(scene)
    /\ last' = Last("rebuild", FALSE, "")
    /\ UNCHANGED <<buildVars, gpu, assetVars>>

\* RayTracer::update_buffers is called, and Scene::bvh in it
BuffersUpdated ==
    /\ \E r \in { UpdateBuffers(scene) } :
           /\ scene' = r.scene
           /\ gpu' = r.gpu
    /\ last' = Last("bvh", NeedsBuild(scene), last.op)
    /\ UNCHANGED <<buildVars, assetVars>>

SceneNext ==
    SceneChanged \/ MeshAdded \/ QualitySelected \/ RebuildClicked \/ BuffersUpdated

SceneSpec == SceneInit /\ [][SceneNext]_vars

----------------------------------------------------------------------------
(* The state machine of load_model: one worker for every material in the   *)
(* first par_iter, then the second par_iter builds the materials           *)

\* the variables of the BVH and the scene
sceneVars == <<buildVars, scene, last, gpu>>

AssetInit ==
    /\ meshes = <<>>
    /\ quality = "High"
    /\ i = 0
    /\ mesh_lookup = [k \in {} |-> <<0, 0>>]
    /\ data = MeshDataListDefault
    /\ bvh = BVHEmpty
    /\ stack = <<>>
    /\ sub = SubDefault
    /\ stats = StatsStart
    /\ pc = "idle"
    /\ scene = SceneNew
    /\ last = Last("new", FALSE, "")
    /\ gpu = GpuNew
    /\ materials \in MaterialLists
    /\ texture_refs = [k \in {} |-> TextureRefDefault]
    /\ loaded_textures = [k \in {} |-> TextureRefDefault]
    /\ cpu_textures = [k \in {} |-> BlankImage]
    /\ next_texture_index = 0
    /\ material_map = [k \in {} |-> NewMaterial(None, <<>>)]
    /\ worker = [m \in DOMAIN materials |-> WorkerStart]

\* the worker of material m moves to the position to
Goto(m, to) == worker' = [worker EXCEPT ![m].pc = to]

\* the closure of the first par_iter on material m: nothing to do without
\* a texture or when texture_refs has the path
CheckRefsBy(m) ==
    /\ worker[m].pc = "start"
    /\ IF materials[m].some /\ materials[m].s \notin DOMAIN texture_refs
       THEN Goto(m, "load_texture")
       ELSE Goto(m, "done")
    /\ UNCHANGED <<sceneVars, materials, texture_refs, loaded_textures,
                   cpu_textures, next_texture_index, material_map>>

\* load_texture: the capacity check
CheckCapacityBy(m) ==
    /\ worker[m].pc = "load_texture"
    /\ IF Cardinality(DOMAIN loaded_textures) = MAX_TEXTURES
       THEN Goto(m, "panic")
       ELSE Goto(m, "get")
    /\ UNCHANGED <<sceneVars, materials, texture_refs, loaded_textures,
                   cpu_textures, next_texture_index, material_map>>

\* load_texture: a path found in loaded_textures returns its TextureRef,
\* another one is read from its file
GetLoadedBy(m) ==
    /\ worker[m].pc = "get"
    /\ IF materials[m].s \in DOMAIN loaded_textures
       THEN worker' = [worker EXCEPT
                         ![m] = [pc |-> "insert_refs",
                                 texture_ref |-> loaded_textures[materials[m].s]]]
       ELSE Goto(m, "fetch_add")
    /\ UNCHANGED <<sceneVars, materials, texture_refs, loaded_textures,
                   cpu_textures, next_texture_index, material_map>>

\* load_texture: next_texture_index.fetch_add(1)
FetchAddBy(m) ==
    /\ worker[m].pc = "fetch_add"
    /\ worker' = [worker EXCEPT
                     ![m] = [pc |-> "insert_loaded",
                             texture_ref |-> TextureRef(next_texture_index)]]
    /\ next_texture_index' = next_texture_index + 1
    /\ UNCHANGED <<sceneVars, materials, texture_refs, loaded_textures,
                   cpu_textures, material_map>>

\* load_texture: loaded_textures.insert
InsertLoadedBy(m) ==
    /\ worker[m].pc = "insert_loaded"
    /\ loaded_textures' =
           [k \in DOMAIN loaded_textures \cup {materials[m].s} |->
               IF k = materials[m].s THEN worker[m].texture_ref
               ELSE loaded_textures[k]]
    /\ Goto(m, "insert_cpu")
    /\ UNCHANGED <<sceneVars, materials, texture_refs, cpu_textures,
                   next_texture_index, material_map>>

\* load_texture: cpu_textures.insert, and the return
InsertCpuBy(m) ==
    /\ worker[m].pc = "insert_cpu"
    /\ cpu_textures' =
           [k \in DOMAIN cpu_textures \cup {materials[m].s} |->
               IF k = materials[m].s THEN ImageOf(materials[m].s)
               ELSE cpu_textures[k]]
    /\ Goto(m, "insert_refs")
    /\ UNCHANGED <<sceneVars, materials, texture_refs, loaded_textures,
                   next_texture_index, material_map>>

\* texture_refs.insert of what load_texture returned
InsertRefsBy(m) ==
    /\ worker[m].pc = "insert_refs"
    /\ texture_refs' =
           [k \in DOMAIN texture_refs \cup {materials[m].s} |->
               IF k = materials[m].s THEN worker[m].texture_ref
               ELSE texture_refs[k]]
    /\ Goto(m, "done")
    /\ UNCHANGED <<sceneVars, materials, loaded_textures, cpu_textures,
                   next_texture_index, material_map>>

\* the closure of the second par_iter on material m, after the first
\* par_iter has returned
InsertMaterialBy(m) ==
    /\ \A k \in DOMAIN worker : worker[k].pc \in {"done", "inserted"}
    /\ worker[m].pc = "done"
    /\ material_map' =
           [k \in DOMAIN material_map \cup {m} |->
               IF k = m THEN NewMaterial(materials[m], texture_refs)
               ELSE material_map[k]]
    /\ Goto(m, "inserted")
    /\ UNCHANGED <<sceneVars, materials, texture_refs, loaded_textures,
                   cpu_textures, next_texture_index>>

\* a step of one of the workers
CheckRefs == \E m \in DOMAIN worker : CheckRefsBy(m)
CheckCapacity == \E m \in DOMAIN worker : CheckCapacityBy(m)
GetLoaded == \E m \in DOMAIN worker : GetLoadedBy(m)
FetchAdd == \E m \in DOMAIN worker : FetchAddBy(m)
InsertLoaded == \E m \in DOMAIN worker : InsertLoadedBy(m)
InsertCpu == \E m \in DOMAIN worker : InsertCpuBy(m)
InsertRefs == \E m \in DOMAIN worker : InsertRefsBy(m)
InsertMaterial == \E m \in DOMAIN worker : InsertMaterialBy(m)

AssetNext ==
    \/ CheckRefs
    \/ CheckCapacity
    \/ GetLoaded
    \/ FetchAdd
    \/ InsertLoaded
    \/ InsertCpu
    \/ InsertRefs
    \/ InsertMaterial

AssetSpec == AssetInit /\ [][AssetNext]_vars

----------------------------------------------------------------------------
(* Properties: vocabulary *)

\* build has returned for the instance at position i
BuildReturned == pc = "append"

\* the geometry build is running on, or has just returned for
CurMesh == At(meshes, i).mesh

NodeIds(b) == 0..(Len(b.nodes) - 1)

IsLeaf(node) == node.count > 0

Leaves(b) == { k \in NodeIds(b) : IsLeaf(At(b.nodes, k)) }

Interiors(b) == { k \in NodeIds(b) : ~IsLeaf(At(b.nodes, k)) }

\* the positions [first, first + count) a node owns
Range(node) == node.first..(node.first + node.count - 1)

RECURSIVE SubtreeRange(_, _)
\* the positions owned by the leaves below node k
SubtreeRange(b, k) ==
    LET node == At(b.nodes, k)
    IN  IF IsLeaf(node) THEN Range(node)
        ELSE SubtreeRange(b, node.left) \cup SubtreeRange(b, node.right)

\* the tight bounds of the build triangles at the positions ps
TightMin(b, ps) ==
    [a \in 1..3 |-> CHOOSE m \in { At(b.build_triangles, k).min[a] : k \in ps } :
                        \A k \in ps : m <= At(b.build_triangles, k).min[a]]
TightMax(b, ps) ==
    [a \in 1..3 |-> CHOOSE m \in { At(b.build_triangles, k).max[a] : k \in ps } :
                        \A k \in ps : m >= At(b.build_triangles, k).max[a]]

Contains(outer, inner) ==
    \A a \in 1..3 : /\ outer.aabb_min[a] <= inner.aabb_min[a]
                    /\ inner.aabb_max[a] <= outer.aabb_max[a]

NodeHalfArea(node) == HalfAreaOfExtent(VecSub(node.aabb_max, node.aabb_min))

----------------------------------------------------------------------------
(* C1..C5: the tree of one build *)

\* C1: after build with Quality::Low or Quality::High on a geometry of
\* n >= 1 triangles the ranges of the leaves are pairwise disjoint, their
\* union is [0, n), and the build triangles are a permutation of the source
\* triangles.
C1_Coverage ==
    (BuildReturned /\ NTris(CurMesh) >= 1 /\ quality \in {"Low", "High"}) =>
        /\ \A k1, k2 \in Leaves(bvh) :
               k1 # k2 => Range(At(bvh.nodes, k1)) \cap Range(At(bvh.nodes, k2)) = {}
        /\ UNION { Range(At(bvh.nodes, k)) : k \in Leaves(bvh) }
               = 0..(NTris(CurMesh) - 1)
        /\ { t.i : t \in { At(bvh.build_triangles, k) : k \in 0..(NTris(CurMesh) - 1) } }
               = { 3 * k : k \in 0..(NTris(CurMesh) - 1) }

\* a build of three triangles has returned a tree of five nodes
C1_Witness ==
    /\ BuildReturned
    /\ quality \in {"Low", "High"}
    /\ NTris(CurMesh) = 3
    /\ Cardinality(Leaves(bvh)) = 3

\* C2: right after an accepted split on (axis, split_pos) every build
\* triangle in the range of the left child has centroid[axis] < split_pos
\* and every one in the range of the right child has
\* centroid[axis] >= split_pos.
C2_Partition ==
    sub.accepted =>
        LET parent == At(bvh.nodes, sub.node_idx)
            left == At(bvh.nodes, parent.left)
            right == At(bvh.nodes, parent.right)
        IN  /\ \A k \in Range(left) :
                   RLess(At(bvh.build_triangles, k).centroid[sub.axis + 1], sub.split_pos)
            /\ \A k \in Range(right) :
                   ~RLess(At(bvh.build_triangles, k).centroid[sub.axis + 1], sub.split_pos)

\* a split was accepted that had to move a triangle: the first triangle of
\* the right child is not the one that stood there in source order
C2_Witness ==
    /\ sub.accepted
    /\ sub.node_idx = 0
    /\ LET right == At(bvh.nodes, At(bvh.nodes, 0).right)
       IN  At(bvh.build_triangles, right.first).i # 3 * right.first

\* C3: in a finished tree the AABB of an interior node contains the AABBs
\* of both children, and the AABB of a leaf is exactly the min/max over the
\* corners of the triangles in its final range.
C3_Bounding ==
    (BuildReturned /\ NTris(CurMesh) >= 1) =>
        /\ \A k \in Interiors(bvh) :
               LET node == At(bvh.nodes, k)
               IN  /\ Contains(node, At(bvh.nodes, node.left))
                   /\ Contains(node, At(bvh.nodes, node.right))
        /\ \A k \in Leaves(bvh) :
               LET node == At(bvh.nodes, k)
               IN  /\ node.aabb_min = TightMin(bvh, Range(node))
                   /\ node.aabb_max = TightMax(bvh, Range(node))

\* a finished tree in which the left child of the root was split again,
\* after the right child got its bounds
C3_Witness ==
    /\ BuildReturned
    /\ Len(bvh.nodes) = 5
    /\ ~IsLeaf(At(bvh.nodes, 1))

\* the interior node that has node k as a child
ParentOf(b, k) ==
    CHOOSE p \in Interiors(b) :
        At(b.nodes, p).left = k \/ At(b.nodes, p).right = k

RECURSIVE DepthOf(_, _)
\* the number of splits between the root and node k
DepthOf(b, k) == IF k = 0 THEN 0 ELSE 1 + DepthOf(b, ParentOf(b, k))

\* C4: every interior node was split under the accept condition: the SAH
\* cost of its split, left count * left half area + right count * right half
\* area, is strictly less than its own half area * triangle count; and a
\* leaf of the finished tree (above MAX_DEPTH) has no best split of a cost
\* strictly less than its own.
C4_AcceptCondition ==
    /\ sub.accepted => FLess(sub.cost, sub.parent_cost)
    /\ (pc \in {"subdivide", "pack"} /\ ~FLess(sub.cost, sub.parent_cost)) =>
           IsLeaf(At(bvh.nodes, sub.node_idx))
    /\ (BuildReturned /\ NTris(CurMesh) >= 1 /\ quality \in {"Low", "High"}) =>
        /\ \A k \in Interiors(bvh) :
               LET node == At(bvh.nodes, k)
                   left == At(bvh.nodes, node.left)
                   right == At(bvh.nodes, node.right)
                   n_left == Cardinality(SubtreeRange(bvh, node.left))
                   n_right == Cardinality(SubtreeRange(bvh, node.right))
               IN  n_left * NodeHalfArea(left) + n_right * NodeHalfArea(right)
                       < NodeHalfArea(node) * (n_left + n_right)
        /\ \A k \in Leaves(bvh) :
               LET node == At(bvh.nodes, k)
               IN  DepthOf(bvh, k) < MAX_DEPTH =>
                       ~FLess(FindBestSplit(bvh.build_triangles, quality, node,
                                            node.first, node.count).cost,
                              NodeCost(node))

\* a finished tree with an interior node and with a leaf of several
\* triangles whose best split has a proper cost that is not less than the
\* cost of the leaf
C4_Witness ==
    /\ BuildReturned
    /\ Interiors(bvh) # {}
    /\ \E k \in Leaves(bvh) :
           LET node == At(bvh.nodes, k)
               c == FindBestSplit(bvh.build_triangles, quality, node,
                                  node.first, node.count).cost
           IN  node.count > 1 /\ c >= 0

\* the position of the first instance with the cache key of instance k
FirstWithKey(k) ==
    CHOOSE j \in 0..k : /\ KeyOf(meshes, j) = KeyOf(meshes, k)
                        /\ \A m \in 0..(j - 1) : KeyOf(meshes, m) # KeyOf(meshes, k)

\* the earlier instances of the list for which build ran on geometry g
BuiltBefore(g) ==
    { j \in 0..(i - 1) : At(meshes, j).mesh = g /\ FirstWithKey(j) = j }

\* C5: build with Quality::Disabled on a geometry of n >= 1 triangles yields
\* exactly one node, a leaf with first = 0 and count = n, and an earlier
\* build of the same geometry yielded the same nodes and triangles.
C5_Disabled ==
    (BuildReturned /\ NTris(CurMesh) >= 1 /\ quality = "Disabled") =>
        /\ bvh.n_nodes = 1
        /\ Len(bvh.nodes) = 1
        /\ At(bvh.nodes, 0).first = 0
        /\ At(bvh.nodes, 0).count = NTris(CurMesh)
        /\ At(bvh.nodes, 0).left = 0 /\ At(bvh.nodes, 0).right = 0
        /\ \A j \in BuiltBefore(CurMesh) :
               LET off == mesh_lookup[KeyOf(meshes, j)]
               IN  /\ SubSeq(data.nodes, off[1] + 1, off[1] + 1) = bvh.nodes
                   /\ SubSeq(data.triangles, off[2] + 1,
                             off[2] + Len(bvh.packed_triangles)) = bvh.packed_triangles

\* a second build of the same geometry with Quality::Disabled has returned
C5_Witness ==
    /\ BuildReturned
    /\ quality = "Disabled"
    /\ NTris(CurMesh) >= 1
    /\ BuiltBefore(CurMesh) # {}

----------------------------------------------------------------------------
(* C6..C10: the per-mesh cache *)

\* build_per_mesh has returned
Finished == pc = "done"

Instances == 0..(Len(meshes) - 1)

UniformOf(k) == At(data.mesh_uniforms, k)

\* C6: two instances that share one geometry are emitted with the same
\* node_offset, triangle_offset and triangle count, whatever their labels
\* and positions.
C6_SharedGeometry ==
    Finished =>
        \A a, b \in Instances :
            At(meshes, a).mesh = At(meshes, b).mesh =>
                /\ UniformOf(a).node_offset = UniformOf(b).node_offset
                /\ UniformOf(a).triangle_offset = UniformOf(b).triangle_offset
                /\ UniformOf(a).triangles = UniformOf(b).triangles

\* the node and triangle positions of the global arrays instance k refers to
NodeRangeOf(k) ==
    LET u == UniformOf(k)
    IN  u.node_offset..(u.node_offset + Len(Build(At(meshes, k).mesh, quality).nodes) - 1)
TriangleRangeOf(k) ==
    LET u == UniformOf(k)
    IN  u.triangle_offset..(u.triangle_offset + u.triangles - 1)

\* C7: for two instances of distinct geometries the node ranges and the
\* triangle ranges in the global arrays do not overlap, also when both carry
\* the same label or the position string of one is the label of the other.
C7_DistinctGeometry ==
    Finished =>
        \A a, b \in Instances :
            At(meshes, a).mesh # At(meshes, b).mesh =>
                /\ NodeRangeOf(a) \cap NodeRangeOf(b) = {}
                /\ TriangleRangeOf(a) \cap TriangleRangeOf(b) = {}

\* C8: for every quality, after build of a geometry of n triangles
\* packed_triangles has n entries and entry k is the packed source triangle
\* that build_triangles[k] refers to.
C8_Packing ==
    BuildReturned =>
        /\ Len(bvh.packed_triangles) = NTris(CurMesh)
        /\ \A k \in 0..(NTris(CurMesh) - 1) :
               LET t == At(bvh.build_triangles, k)
                   v1 == At(CurMesh.vertices, At(CurMesh.indices, t.i))
                   v2 == At(CurMesh.vertices, At(CurMesh.indices, t.i + 1))
                   v3 == At(CurMesh.vertices, At(CurMesh.indices, t.i + 2))
               IN  At(bvh.packed_triangles, k) = PackedTriangleNew(v1, v2, v3)

\* C9: build on a geometry with zero indices returns the Empty state and does
\* not panic, and the iteration of build_per_mesh for an instance of such a
\* geometry leaves the global node and triangle arrays as they are while it
\* pushes a MeshUniform with triangle count 0.
C9_EmptyGeometry ==
    [][ (i < Len(meshes) /\ Len(At(meshes, i).mesh.indices) = 0) =>
            /\ pc' # "panic"
            /\ pc' = "append" =>
                   /\ bvh'.n_nodes = 0
                   /\ bvh'.nodes = <<>>
                   /\ bvh'.packed_triangles = <<>>
            /\ i' = i + 1 =>
                   /\ data'.nodes = data.nodes
                   /\ data'.triangles = data.triangles
                   /\ Len(data'.mesh_uniforms) = Len(data.mesh_uniforms) + 1
                   /\ At(data'.mesh_uniforms, i).triangles = 0 ]_vars

\* an instance without indices came after an instance with triangles, build
\* ran for it, and its MeshUniform is out
C9_Witness ==
    /\ i = 2
    /\ pc = "loop"
    /\ Len(At(meshes, 1).mesh.indices) = 0
    /\ KeyOf(meshes, 1) # KeyOf(meshes, 0)
    /\ Len(data.nodes) > 0
    /\ Len(data.mesh_uniforms) = 2

\* the cache keys under which build ran on geometry g: a key enters
\* mesh_lookup together with the call of build for the first instance that
\* has the key
BuildsOf(g) ==
    { key \in DOMAIN mesh_lookup :
        \E k \in Instances : /\ KeyOf(meshes, k) = key
                             /\ FirstWithKey(k) = k
                             /\ At(meshes, k).mesh = g }

\* C10: in one call of build_per_mesh build runs exactly once for every
\* geometry of the list, whether or not the instances carry labels.
C10_BuiltOnce ==
    Finished =>
        \A k \in Instances : Cardinality(BuildsOf(At(meshes, k).mesh)) = 1

----------------------------------------------------------------------------
(* C11, C12: offsets into the global arrays *)

\* the instances build can run on: at least one triangle, consistent indices
Buildable == { k \in Instances : /\ NTris(At(meshes, k).mesh) >= 1
                                 /\ ~BuildPanics(At(meshes, k).mesh) }

\* C11: for every MeshUniform emitted for an instance with at least one
\* triangle, the global node array has a node at node_offset, it is the root
\* of the tree built from the geometry of that instance, and
\* triangle_offset + triangles is at most the length of the global triangle
\* array; for every quality and every instance list.
C11_OffsetsInRange ==
    Finished =>
        \A k \in Buildable :
            LET u == UniformOf(k)
            IN  /\ u.node_offset < Len(data.nodes)
                /\ At(data.nodes, u.node_offset)
                       = At(Build(At(meshes, k).mesh, quality).nodes, 0)
                /\ u.triangle_offset + u.triangles <= Len(data.triangles)

\* the first instance of every cache key: the instances build ran for
Built == { k \in Instances : FirstWithKey(k) = k }

\* C12: the nodes of a geometry are in the global node array as build
\* returned them, relative to the subranges of the geometry: for the node at
\* node_offset + k, node_offset + left and node_offset + right are inside the
\* node subrange of the geometry and triangle_offset + first + count is
\* inside its triangle subrange.
C12_RelativeIndices ==
    Finished =>
        \A j \in Built :
            LET off == mesh_lookup[KeyOf(meshes, j)]
                tree == Build(At(meshes, j).mesh, quality)
                n_nodes == Len(tree.nodes)
                n_packed == Len(tree.packed_triangles)
            IN  /\ off[1] + n_nodes <= Len(data.nodes)
                /\ off[2] + n_packed <= Len(data.triangles)
                /\ \A k \in 0..(n_nodes - 1) :
                       LET node == At(data.nodes, off[1] + k)
                       IN  /\ node = At(tree.nodes, k)
                           /\ node.left < n_nodes
                           /\ node.right < n_nodes
                           /\ node.first + node.count <= n_packed

----------------------------------------------------------------------------
(* C13..C16: node shape, capacity, one-sided splits, inconsistent input *)

\* C13: in every state during and after a build a node is either interior,
\* count = 0 with left and right the indices of existing nodes (never of the
\* root), or a leaf, count > 0 with left = right = 0; node 0 is the root
\* with first = 0; no node with count = 0 is a leaf.
C13_NodeShape ==
    /\ \A k \in NodeIds(bvh) :
           LET node == At(bvh.nodes, k)
           IN  \/ /\ node.count = 0
                  /\ node.left \in 1..(Len(bvh.nodes) - 1)
                  /\ node.right \in 1..(Len(bvh.nodes) - 1)
               \/ /\ node.count > 0
                  /\ node.left = 0
                  /\ node.right = 0
    /\ bvh.nodes # <<>> => At(bvh.nodes, 0).first = 0

\* a build is under way: the root was split, its children are leaves and
\* calls of subdivide are pending
C13_Witness ==
    /\ pc = "subdivide"
    /\ Len(bvh.nodes) = 3
    /\ At(bvh.nodes, 0).count = 0
    /\ IsLeaf(At(bvh.nodes, 1)) /\ IsLeaf(At(bvh.nodes, 2))

\* C15: a split that puts all triangles of a node on one side is never
\* accepted: right after an accepted split both children own at least one
\* triangle, and no node with count 0 is ever created (a node with count 0
\* is a split parent, its children pushed after it).
C15_NoOneSidedSplit ==
    /\ sub.accepted =>
           LET parent == At(bvh.nodes, sub.node_idx)
           IN  /\ At(bvh.nodes, parent.left).count > 0
               /\ At(bvh.nodes, parent.right).count > 0
    /\ \A k \in NodeIds(bvh) :
           At(bvh.nodes, k).count = 0 => At(bvh.nodes, k).left > k

\* a call of subdivide found a best split with an empty side (its cost is
\* NaN) on a node of several triangles whose centroids all coincide, and
\* left the node a leaf
C15_Witness ==
    /\ pc \in {"subdivide", "pack"}
    /\ sub.cost = F32_NAN
    /\ ~sub.accepted
    /\ At(bvh.nodes, sub.node_idx).count > 1
    /\ \A k \in Range(At(bvh.nodes, sub.node_idx)) :
           At(bvh.build_triangles, k).centroid
               = At(bvh.build_triangles, At(bvh.nodes, sub.node_idx).first).centroid

\* C14: MAX_NODES is a hard upper bound of the builder: no build returns a
\* node array longer than MAX_NODES, and build_per_mesh returns no global
\* node array longer than MAX_NODES (a build that would exceed it ends in an
\* error instead).
C14_NodeCapacity ==
    /\ BuildReturned => Len(bvh.nodes) <= MAX_NODES
    /\ Finished => Len(data.nodes) <= MAX_NODES

\* the precondition of build: whole triangles, every index inside the
\* vertex array
Consistent(mesh) ==
    /\ Len(mesh.indices) % 3 = 0
    /\ \A k \in 1..Len(mesh.indices) : mesh.indices[k] < Len(mesh.vertices)

\* C16: build rejects inconsistent geometry at entry: it never fails with
\* an out-of-bounds access, and it neither constructs a node for nor returns
\* a BVH of a geometry whose index count is not a multiple of 3 or that has
\* an index outside the vertex array.
C16_RejectsInconsistent ==
    /\ pc # "panic"
    /\ pc \in {"subdivide", "pack", "append"} => Consistent(CurMesh)

----------------------------------------------------------------------------
(* C20: the mesh uniforms *)

\* the product of two 4x4 matrices given by their columns
MatMul(a, b) ==
    [c \in 1..4 |-> [r \in 1..4 |->
        a[1][r] * b[c][1] + a[2][r] * b[c][2] + a[3][r] * b[c][3] + a[4][r] * b[c][4]]]

Identity4 == << <<1, 0, 0, 0>>, <<0, 1, 0, 0>>, <<0, 0, 1, 0>>, <<0, 0, 0, 1>> >>

\* C20: build_per_mesh emits exactly one MeshUniform per instance, in input
\* order: while the loop runs there is one for every finished iteration, and
\* mesh_uniforms[k] carries the material of instance k, the matrix of its
\* transform as model_to_world, the inverse of that matrix as
\* world_to_model, and triangles = indices.len() / 3 of instance k.
C20_UniformPerInstance ==
    /\ pc = "loop" => Len(data.mesh_uniforms) = i
    /\ Finished =>
        /\ Len(data.mesh_uniforms) = Len(meshes)
        /\ \A k \in Instances :
               LET u == UniformOf(k)
                   inst == At(meshes, k)
               IN  /\ u.material = inst.material
                   /\ u.model_to_world = ToMatrix(inst.transform)
                   /\ MatMul(u.model_to_world, u.world_to_model) = Identity4
                   /\ MatMul(u.world_to_model, u.model_to_world) = Identity4
                   /\ u.triangles = Len(inst.mesh.indices) \div 3

\* build_per_mesh returned for two instances of one cache key that differ
\* in geometry, transform and material
C20_Witness ==
    /\ Finished
    /\ Len(meshes) = 2
    /\ KeyOf(meshes, 0) = KeyOf(meshes, 1)
    /\ NTris(At(meshes, 0).mesh) # NTris(At(meshes, 1).mesh)
    /\ At(meshes, 0).transform # At(meshes, 1).transform
    /\ At(meshes, 0).material # At(meshes, 1).material

----------------------------------------------------------------------------
(* C17..C19: the cache of Scene::bvh *)

\* C17: changing the quality selection invalidates the cached BVH: the call
\* of Scene::bvh that follows a change of bvh_quality rebuilds (the scene has
\* meshes).
C17_QualityInvalidates ==
    (last.op = "bvh" /\ last.after = "quality" /\ Len(scene.meshes) > 0) =>
        last.built

\* C18: after one or more clicks on "Rebuild BVH" the next call of
\* Scene::bvh runs build_per_mesh and leaves in bvh_data what
\* build_per_mesh returns for the meshes the scene has now; a click that
\* follows a click changes nothing.
C18_RebuildTrigger ==
    /\ [](last.op = "bvh" /\ last.after = "rebuild" =>
            /\ \E q \in Qualities : scene.bvh_data = BuildPerMesh(scene.meshes, q)
            /\ Len(scene.meshes) > 0 => last.built /\ scene.built_bvh)
    /\ [][last.op = "rebuild" /\ last'.op = "rebuild" => scene' = scene]_vars

\* Scene::bvh was called right after a click on "Rebuild BVH" in a scene of
\* two meshes with triangles, and it built
C18_Witness ==
    /\ last.op = "bvh"
    /\ last.after = "rebuild"
    /\ last.built
    /\ Len(scene.meshes) = 2
    /\ Len(scene.bvh_data.triangles) > 0

\* C19: the BVH is built by the first call of Scene::bvh and then cached:
\* after a call the data of a scene with meshes is built, and from a
\* finished build to the next click on "Rebuild BVH" or the next scene no
\* call of Scene::bvh (and nothing between the calls) runs a build or
\* changes bvh_data.
C19_LazyCached ==
    /\ [](last.op = "bvh" /\ Len(scene.meshes) > 0 => scene.built_bvh)
    /\ [][scene.built_bvh /\ last'.op \in {"bvh", "quality", "add_mesh"} =>
            /\ ~last'.built
            /\ scene'.built_bvh
            /\ scene'.bvh_data = scene.bvh_data]_vars

\* two calls of Scene::bvh in a row on a scene with built data: the second
\* one did not build
C19_Witness ==
    /\ last.op = "bvh"
    /\ last.after = "bvh"
    /\ ~last.built
    /\ scene.built_bvh
    /\ Len(scene.bvh_data.nodes) > 1

----------------------------------------------------------------------------
(* C22, C23, C28: the layout of the tree *)

\* a call of subdivide has just run
Subdivided == pc = "subdivide" /\ pc' \in {"subdivide", "pack"}

\* C22: the node array is append-only during a build and children come
\* after their parent: an accepted split pushes exactly two nodes, left is
\* n_nodes before the split and right is left + 1, no node but the split
\* parent is modified (and of the parent only left, right and count), a
\* rejected split leaves the array as it is; so for every interior node at
\* index p, p < left < right < nodes.len().
C22_AppendOnly ==
    /\ [][Subdivided =>
            LET p == sub'.node_idx
            IN  IF sub'.accepted
                THEN /\ Len(bvh'.nodes) = Len(bvh.nodes) + 2
                     /\ bvh'.n_nodes = Len(bvh'.nodes)
                     /\ At(bvh'.nodes, p).left = bvh.n_nodes
                     /\ At(bvh'.nodes, p).right = bvh.n_nodes + 1
                     /\ \A k \in NodeIds(bvh) \ {p} :
                            At(bvh'.nodes, k) = At(bvh.nodes, k)
                     /\ At(bvh'.nodes, p) =
                            [At(bvh.nodes, p) EXCEPT !.left = bvh.n_nodes,
                                                     !.right = bvh.n_nodes + 1,
                                                     !.count = 0]
                ELSE bvh'.nodes = bvh.nodes]_vars
    /\ [](\A p \in Interiors(bvh) :
             /\ p < At(bvh.nodes, p).left
             /\ At(bvh.nodes, p).left < At(bvh.nodes, p).right
             /\ At(bvh.nodes, p).right < Len(bvh.nodes))

\* a node that is not the root was split: its children are not next to it
C22_Witness ==
    /\ pc = "subdivide"
    /\ sub.accepted
    /\ sub.node_idx = 1
    /\ At(bvh.nodes, 1).left = 3

\* the positions of the range of a call whose centroid is left of split_pos
LeftOf(b, axis, split_pos, start, n_tris) ==
    { k \in start..(start + n_tris - 1) :
        RLess(At(b.build_triangles, k).centroid[axis + 1], split_pos) }

\* C23: on every accepted split the ranges of the children partition the
\* range of the parent: left.first = parent.first, left.count = left_count
\* (the triangles of the parent left of split_pos), right.first =
\* parent.first + left_count, right.count = the count of the parent before
\* the split - left_count; and the (start, n_tris) arguments of every call
\* of subdivide, pending or just run, are first and count of its node.
C23_RangesPartition ==
    /\ [][(Subdivided /\ sub'.accepted) =>
            LET parent == At(bvh.nodes, sub'.node_idx)
                left == At(bvh'.nodes, At(bvh'.nodes, sub'.node_idx).left)
                right == At(bvh'.nodes, At(bvh'.nodes, sub'.node_idx).right)
                left_count == Cardinality(LeftOf(bvh, sub'.axis, sub'.split_pos,
                                                 parent.first, parent.count))
            IN  /\ left.first = parent.first
                /\ left.count = left_count
                /\ right.first = parent.first + left_count
                /\ right.count = parent.count - left_count]_vars
    /\ [][Subdivided =>
            /\ At(bvh.nodes, sub'.node_idx).first = sub'.tri_global_start
            /\ At(bvh.nodes, sub'.node_idx).count = sub'.n_tris]_vars
    /\ [](\A k \in 1..Len(stack) :
             /\ At(bvh.nodes, stack[k].node_idx).first = stack[k].tri_global_start
             /\ At(bvh.nodes, stack[k].node_idx).count = stack[k].n_tris)

\* the right child of the root, which does not begin at position 0, was
\* split into two single triangles
C23_Witness ==
    /\ sub.accepted
    /\ sub.node_idx = 2
    /\ sub.tri_global_start = 1
    /\ At(bvh.nodes, At(bvh.nodes, 2).right).first = 2

RECURSIVE SumOfCounts(_, _)
\* the sum of the counts of the nodes ks
SumOfCounts(b, ks) ==
    IF ks = {} THEN 0
    ELSE LET k == CHOOSE x \in ks : TRUE
         IN  At(b.nodes, k).count + SumOfCounts(b, ks \ {k})

\* C28: the finished tree of a geometry of n >= 1 triangles built with Low
\* or High has an odd number of nodes, at most 2n - 1, (n_nodes + 1) / 2 of
\* them leaves, and the counts of the leaves sum to n; a geometry of two
\* triangles ends with 1 or 3 nodes.
C28_TreeSize ==
    (BuildReturned /\ NTris(CurMesh) >= 1 /\ quality \in {"Low", "High"}) =>
        /\ bvh.n_nodes = Len(bvh.nodes)
        /\ bvh.n_nodes % 2 = 1
        /\ bvh.n_nodes <= 2 * NTris(CurMesh) - 1
        /\ 2 * Cardinality(Leaves(bvh)) = bvh.n_nodes + 1
        /\ SumOfCounts(bvh, Leaves(bvh)) = NTris(CurMesh)
        /\ NTris(CurMesh) = 2 => bvh.n_nodes \in {1, 3}

\* a build of three triangles returned with the full 2n - 1 = 5 nodes
C28_Witness ==
    /\ BuildReturned
    /\ quality \in {"Low", "High"}
    /\ NTris(CurMesh) = 3
    /\ bvh.n_nodes = 5

----------------------------------------------------------------------------
(* C25, C26: find_best_split *)

\* count * half area of the tight box of the triangles at the positions ps;
\* the box of no triangle has the half area +inf, and 0 * inf is NaN
SideCost(b, ps) ==
    IF ps = {} THEN F32_NAN
    ELSE Cardinality(ps) * HalfAreaOfExtent(VecSub(TightMax(b, ps), TightMin(b, ps)))

\* the SAH cost of splitting the positions start..start+n_tris-1 at
\* split_pos on axis
SahCost(b, axis, split_pos, start, n_tris) ==
    LET left == LeftOf(b, axis, split_pos, start, n_tris)
    IN  FAdd(SideCost(b, left),
             SideCost(b, (start..(start + n_tris - 1)) \ left))

\* a call of subdivide on a node of more than one triangle has just got
\* to its decision
SplitSearched == pc \in {"subdivide", "pack"} /\ sub.n_tris > 1

\* the extent of the node of the last call of subdivide
SubExtent ==
    VecSub(At(bvh.nodes, sub.node_idx).aabb_max, At(bvh.nodes, sub.node_idx).aabb_min)

\* C25: with Quality::Low find_best_split on a node of more than one
\* triangle chooses an axis whose extent is >= the extent of both other
\* axes, split_pos the midpoint of the AABB of the node on that axis, and
\* returns the SAH cost of exactly that split.
C25_LowSplit ==
    (SplitSearched /\ quality = "Low") =>
        LET node == At(bvh.nodes, sub.node_idx)
        IN  /\ \A a \in 1..3 : SubExtent[sub.axis + 1] >= SubExtent[a]
            /\ 2 * sub.split_pos[1] =
                   (node.aabb_min[sub.axis + 1] + node.aabb_max[sub.axis + 1])
                       * sub.split_pos[2]
            /\ sub.cost = SahCost(bvh, sub.axis, sub.split_pos,
                                  sub.tri_global_start, sub.n_tris)

\* a Low search on a node whose two longest extents are equal, with
\* triangles on both sides of the midpoint
C25_Witness ==
    /\ SplitSearched
    /\ quality = "Low"
    /\ SubExtent[1] = SubExtent[2]
    /\ SubExtent[1] > SubExtent[3]
    /\ sub.cost >= 0

\* the tests of a High search on the node of the last call, with their SAH
\* costs
SubTests ==
    { [axis |-> t.axis, split_pos |-> t.split_pos,
       cost |-> SahCost(bvh, t.axis, t.split_pos, sub.tri_global_start, sub.n_tris)]
      : t \in UNION { AxisTests(At(bvh.nodes, sub.node_idx), SubExtent, a)
                       : a \in 0..2 } }

\* C26: with Quality::High find_best_split on a node of more than one
\* triangle tests nothing on an axis of extent 0 and between 1 and
\* TEST_SPLITS positions on every other axis, all strictly between the AABB
\* min and max of the node on that axis, and returns the test of minimum
\* SAH cost: no test is cheaper than the returned cost, and a returned cost
\* below +inf comes with the axis and position of a test of that cost.
C26_HighSplit ==
    (SplitSearched /\ quality = "High") =>
        LET node == At(bvh.nodes, sub.node_idx)
        IN  /\ \A a \in 0..2 :
                   LET tests == AxisTests(node, SubExtent, a)
                   IN  IF SubExtent[a + 1] = 0 THEN tests = {}
                       ELSE /\ Cardinality({ t.split_pos : t \in tests })
                                   \in 1..TEST_SPLITS
                            /\ Cardinality(tests)
                                   = Cardinality({ t.split_pos : t \in tests })
                            /\ \A t \in tests :
                                   /\ RLess(<<node.aabb_min[a + 1], 1>>, t.split_pos)
                                   /\ RLess(t.split_pos, <<node.aabb_max[a + 1], 1>>)
            /\ \E tested \in { SubTests } :
                   /\ \A t \in tested : ~FLess(t.cost, sub.cost)
                   /\ IF \E t \in tested : FLess(t.cost, F32_INFINITY)
                      THEN \E t \in tested : /\ t.axis = sub.axis
                                              /\ t.split_pos = sub.split_pos
                                              /\ t.cost = sub.cost
                      ELSE sub.cost = F32_INFINITY

\* a High search on a node with an axis of extent 0, a longest axis with
\* TEST_SPLITS tests and a shorter axis with fewer tests, that found a
\* split with triangles on both sides
C26_Witness ==
    /\ SplitSearched
    /\ quality = "High"
    /\ \E a \in 1..3 : SubExtent[a] = 0
    /\ \E a \in 0..2 :
           Cardinality(AxisTests(At(bvh.nodes, sub.node_idx), SubExtent, a))
               \in 1..(TEST_SPLITS - 1)
    /\ sub.cost >= 0

----------------------------------------------------------------------------
(* C27: the quality of a build through Scene::bvh *)

\* C27: a build triggered through Scene::bvh uses the quality selected in
\* the UI: the data a building call of Scene::bvh leaves is what
\* build_per_mesh returns for the meshes of the scene and scene.bvh_quality.
C27_SelectedQuality ==
    (last.op = "bvh" /\ last.built) =>
        scene.bvh_data = BuildPerMesh(scene.meshes, scene.bvh_quality)

----------------------------------------------------------------------------
(* C21, C24: the recursion of subdivide *)

\* C21: build terminates for every geometry and quality: once subdivide has
\* been called on the root, its recursion comes to an end and build returns.
C21_Terminates == (pc \in {"subdivide", "pack"}) ~> BuildReturned

\* build returned for a geometry of several triangles whose centroids all
\* coincide, after a search for a split
C21_Witness ==
    /\ BuildReturned
    /\ quality \in {"Low", "High"}
    /\ Len(bvh.build_triangles) >= 2
    /\ \A j, k \in 1..Len(bvh.build_triangles) :
           bvh.build_triangles[j].centroid = bvh.build_triangles[k].centroid
    /\ sub.n_tris = Len(bvh.build_triangles)

\* C24: a split is accepted only at a depth < MAX_DEPTH: no call of
\* subdivide is made deeper than MAX_DEPTH, no node of a finished tree lies
\* deeper than MAX_DEPTH below the root, and a node at depth MAX_DEPTH is a
\* leaf whatever its split cost.
C24_DepthCap ==
    /\ sub.accepted => sub.depth < MAX_DEPTH
    /\ \A k \in 1..Len(stack) : stack[k].depth <= MAX_DEPTH
    /\ BuildReturned =>
           \A k \in NodeIds(bvh) :
               /\ DepthOf(bvh, k) <= MAX_DEPTH
               /\ DepthOf(bvh, k) = MAX_DEPTH => IsLeaf(At(bvh.nodes, k))

\* a call of subdivide at depth MAX_DEPTH on several triangles found a
\* split cheaper than the node and left the node a leaf
C24_Witness ==
    /\ pc \in {"subdivide", "pack"}
    /\ sub.depth = MAX_DEPTH
    /\ sub.n_tris > 1
    /\ sub.cost >= 0
    /\ FLess(sub.cost, sub.parent_cost)
    /\ ~sub.accepted
    /\ IsLeaf(At(bvh.nodes, sub.node_idx))

----------------------------------------------------------------------------
(* C29: the buffers written by update_buffers *)

\* C29: after a call of update_buffers the triangle buffer, the
\* mesh-uniform buffer, the node buffer and the scene uniform written in
\* the call all come from one build_per_mesh result, the data the scene
\* holds after the call; also when the call rebuilt.
C29_SameBuild ==
    last.op = "bvh" =>
        /\ gpu.triangle_buffer = scene.bvh_data.triangles
        /\ gpu.mesh_buffer = scene.bvh_data.mesh_uniforms
        /\ gpu.bvh_nodes_buffer = scene.bvh_data.nodes
        /\ gpu.scene_buffer.nodes = Len(scene.bvh_data.nodes)

----------------------------------------------------------------------------
(* C30: texture indices under parallel loading *)

\* load_model has built every material
MaterialsBuilt ==
    /\ worker # <<>>
    /\ \A m \in DOMAIN worker : worker[m].pc = "inserted"

\* the texture paths of the materials
PathsOf(ms) == { ms[m].s : m \in { k \in DOMAIN ms : ms[k].some } }

\* C30: materials that reference the same texture path get one texture
\* index: next_texture_index advances once per distinct path, and the index
\* stored in each material is the index recorded for its path in
\* loaded_textures, the slot of the texture array that holds its image;
\* under every interleaving of the workers.
C30_OneIndexPerPath ==
    MaterialsBuilt =>
        /\ next_texture_index = Cardinality(PathsOf(materials))
        /\ \A m \in DOMAIN materials :
               materials[m].some =>
                   /\ material_map[m].texture_index
                          = loaded_textures[materials[m].s].index
                   /\ CreateTextureArray(loaded_textures, cpu_textures)
                              [material_map[m].texture_index]
                          = ImageOf(materials[m].s)

====
